---- MODULE Spec2Model ----
(***************************************************************************)
(* Model of scripts/image_compression.py: compress_images (one pass over   *)
(* a directory tree) and main (ten passes over the same root).             *)
(*                                                                         *)
(* A file's content is a record [tag, size, img]: tag and size identify    *)
(* the bytes, img says whether PIL's Image.open accepts them.  The         *)
(* GraphicsMagick subprocess is opaque: its exit status and what it leaves *)
(* at the output path are chosen from ToolOutcomes.                        *)
(***************************************************************************)
EXTENDS Integers, Sequences, FiniteSets, TLC

\* Bounds of the model: files in the directory for one pass, files in the
\* directory for several passes, largest file size before the first pass.
MaxFiles == 2
MaxFilesRepeated == 1
MaxSize == 200

\* main: `while i <= 10`.
NumPasses == 10

\* test_multiple_iterations: first_run, second_run.
TestRuns == 2

\* ------------------------------------------------------------------------
\* Paths, extensions, contents
\* ------------------------------------------------------------------------

AllPaths ==
    { [stem |-> "a", suffix |-> ".png"],
      [stem |-> "b", suffix |-> ".jpg"],
      [stem |-> "c", suffix |-> ".jpeg"],
      [stem |-> "d", suffix |-> ".webp"],
      [stem |-> "e", suffix |-> ".bmp"],
      [stem |-> "F", suffix |-> ".PNG"] }

\* str.lower() on the suffixes in use.
Lower(s) == IF s = ".PNG" THEN ".png" ELSE s

\* Mutant of supported_extensions: the allow-list lets ".bmp" through.
supported_extensions_with_bmp == {".png", ".jpg", ".jpeg", ".webp", ".bmp"}

supported_extensions == {".png", ".jpg", ".jpeg", ".webp"}

NoPath == [stem |-> "", suffix |-> ""]
NoFile == [tag |-> "absent", size |-> 0, img |-> FALSE]
Unbound == [input |-> NoPath, mode |-> "", output |-> NoPath]
NoRun == [rc |-> -1, out |-> NoFile]

\* Contents a file can have before the first pass.
InitContents ==
    { [tag |-> "orig", size |-> 0, img |-> FALSE],
      [tag |-> "orig", size |-> MaxSize, img |-> FALSE],
      [tag |-> "orig", size |-> MaxSize, img |-> TRUE] }

\* ------------------------------------------------------------------------
\* The size gate and the external tool
\* ------------------------------------------------------------------------

\* `new_size < original_size * 0.99`.  For integer sizes up to 20000 the
\* double-precision comparison agrees with 100 * new < 99 * original.
\* Mutants of SizeGate: the 0.99 factor dropped; `<=` with the factor
\* dropped; the margin with the wrong sign (1.01).
SizeGateNoMargin(new_size, original_size) == new_size < original_size
SizeGateOrEqual(new_size, original_size) == new_size <= original_size
SizeGatePlusOnePercent(new_size, original_size) ==
    100 * new_size < 101 * original_size

SizeGate(new_size, original_size) == 100 * new_size < 99 * original_size

\* Smallest output size that the gate rejects for an input of size s.
FirstRejected(s) == (99 * s + 99) \div 100

\* Output sizes the tool is given to produce for an input of size s: empty,
\* just accepted, just rejected, equal, larger.
OutSizes(s) ==
    { n \in {0, FirstRejected(s) - 1, FirstRejected(s), s, s + 1} : n >= 0 }

GmFile(n) == [tag |-> "gm", size |-> n, img |-> n > 0]

\* What one `gm convert` run can do: an exit status and the file (or none)
\* left at the output path.
ToolOutcomes(c) ==
    { [rc |-> 1, out |-> NoFile],
      [rc |-> 1, out |-> GmFile(FirstRejected(c.size))],
      [rc |-> 1, out |-> GmFile(0)],
      [rc |-> 0, out |-> NoFile] }
    \cup { [rc |-> 0, out |-> GmFile(n)] : n \in OutSizes(c.size) }

\* What a failed `f.write(compressed_data)` can leave behind after
\* open(file_path, 'wb') has truncated the file.
PartialWrites(c) ==
    { [tag |-> "part", size |-> n, img |-> FALSE] :
        n \in {0} \cup ({1} \cap (0 .. c.size - 1)) }

\* ------------------------------------------------------------------------
\* State
\* ------------------------------------------------------------------------

VARIABLES
    files,           \* the directory: path -> content
    runs,            \* passes the driver makes (main: 10, the test: 2)
    i,               \* main: pass counter
    space,           \* main: bytes saved in the pass last summarised
    pc,              \* "main" | "loop" | "run" | "check" | "returned"
    remaining,       \* paths the glob generator has not yielded yet
    file_path,       \* the loop variable
    cmd,             \* the local `cmd` (Unbound until first assigned)
    tmpdir,          \* path for which a TemporaryDirectory exists, or NoPath
    scratch,         \* file at temp_compressed, or NoFile
    result,          \* subprocess.run's CompletedProcess
    result_images,   \* the pass's result list
    before,          \* history: the directory when the pass started
    log,             \* history: per path, what the pass did with it
    memo,            \* per path: content the tool last ran on and its outcome
    first_run,       \* the previous pass's result list
    first_log,       \* history: per path, the previous pass's verdict
    accepted,        \* history: per path, the replacements made so far
    initial          \* history: the directory before the first pass

vars == << files, runs, i, space, pc, remaining, file_path, cmd, tmpdir, scratch,
           result, result_images, before, log, memo, first_run, first_log,
           accepted, initial >>

Dir == DOMAIN files

\* opened: Image.open was called on the path; invoked: runs of the tool
\* with the path as input; run: outcome of the run made while the path was
\* the candidate, own: that run had the candidate as its input; gate: the
\* comparison of line 80; diag, err: messages of lines 99 and 103 printed
\* for the candidate; write: how the overwrite ended.
NoLog == [opened |-> FALSE, invoked |-> 0, run |-> NoRun, own |-> FALSE,
          gate |-> "none", diag |-> 0, err |-> 0, write |-> "none"]

\* What a pass did with a path, in one word.
Verdict(l) ==
    IF l.write = "ok" THEN "recorded"
    ELSE IF l.write # "none" THEN "raised"
    ELSE IF l.gate = "rejected" THEN "gate_rejected"
    ELSE "other"

\* The state before the driver's first call, for a driver making n passes
\* over a directory of at most k files.
Start(n, k) ==
    /\ \E D \in SUBSET AllPaths :
         /\ Cardinality(D) >= 1
         /\ Cardinality(D) <= k
         /\ files \in [D -> InitContents]
    /\ runs = n
    /\ i = 1
    /\ space = 0
    /\ pc = "main"
    /\ remaining = {}
    /\ file_path = NoPath
    /\ cmd = Unbound
    /\ tmpdir = NoPath
    /\ scratch = NoFile
    /\ result = [returncode |-> -1]
    /\ result_images = << >>
    /\ before = files
    /\ log = [p \in DOMAIN files |-> NoLog]
    /\ memo = [p \in DOMAIN files |-> [content |-> NoFile, outcome |-> NoRun]]
    /\ first_run = << >>
    /\ first_log = [p \in DOMAIN files |-> "other"]
    /\ accepted = [p \in DOMAIN files |-> 0]
    /\ initial = files

\* One call of compress_images (test_failed_compression, test_error_handling,
\* ...).
Init == Start(1, MaxFiles)

\* test_multiple_iterations: two calls.
InitTwice == Start(TestRuns, MaxFilesRepeated)

\* main: ten calls.
InitMain == Start(NumPasses, MaxFilesRepeated)

\* ------------------------------------------------------------------------
\* main
\* ------------------------------------------------------------------------

\* Mutant of StartPass: main stops once a pass has yielded no result.
StartPassUnlessConverged ==
    /\ pc = "main"
    /\ i <= runs
    /\ i = 1 \/ result_images # << >>
    /\ pc' = "loop"
    /\ space' = 0
    /\ remaining' = Dir
    /\ result_images' = << >>
    /\ cmd' = Unbound
    /\ file_path' = NoPath
    /\ before' = files
    /\ log' = [p \in Dir |-> NoLog]
    /\ first_run' = result_images
    /\ first_log' = [p \in Dir |-> Verdict(log[p])]
    /\ UNCHANGED << files, runs, i, tmpdir, scratch, result, memo, accepted,
                    initial >>

\* main, lines 111-113: the loop test, `space = 0`, and the call of
\* compress_images up to its first loop test (result_images = [], the
\* glob generator created, `cmd` not yet bound).
StartPass ==
    /\ pc = "main"
    /\ i <= runs
    /\ pc' = "loop"
    /\ space' = 0
    /\ remaining' = Dir
    /\ result_images' = << >>
    /\ cmd' = Unbound
    /\ file_path' = NoPath
    /\ before' = files
    /\ log' = [p \in Dir |-> NoLog]
    /\ first_run' = result_images
    /\ first_log' = [p \in Dir |-> Verdict(log[p])]
    /\ UNCHANGED << files, runs, i, tmpdir, scratch, result, memo, accepted,
                    initial >>

\* compress_images, line 104: the generator is exhausted.
Return ==
    /\ pc = "loop"
    /\ remaining = {}
    /\ pc' = "returned"
    /\ UNCHANGED << files, runs, i, space, remaining, file_path, cmd, tmpdir,
                    scratch, result, result_images, before, log, memo,
                    first_run, first_log,
                    accepted, initial >>

RECURSIVE Saved(_)
Saved(images) ==
    IF images = << >> THEN 0
    ELSE (Head(images).original_size - Head(images).new_size)
         + Saved(Tail(images))

\* main, lines 114-120.
Summary ==
    /\ pc = "returned"
    /\ space' = space + Saved(result_images)
    /\ i' = i + 1
    /\ pc' = "main"
    /\ UNCHANGED << files, runs, remaining, file_path, cmd, tmpdir, scratch,
                    result, result_images, before, log, memo, first_run, first_log,
                    accepted, initial >>

\* ------------------------------------------------------------------------
\* compress_images: one file
\* ------------------------------------------------------------------------

\* Lines 45-47: a path whose lower-cased suffix is not supported.
SkipUnsupported(p) ==
    /\ pc = "loop"
    /\ p \in remaining
    /\ Lower(p.suffix) \notin supported_extensions
    /\ remaining' = remaining \ {p}
    /\ file_path' = p
    /\ UNCHANGED << files, runs, i, space, pc, cmd, tmpdir, scratch, result,
                    result_images, before, log, memo, first_run, first_log,
                    accepted, initial >>

\* Lines 50, 102-103: Image.open raises; the handler logs and the loop
\* goes on.
OpenRaises(p) ==
    /\ pc = "loop"
    /\ p \in remaining
    /\ Lower(p.suffix) \in supported_extensions
    /\ ~ files[p].img
    /\ remaining' = remaining \ {p}
    /\ file_path' = p
    /\ log' = [log EXCEPT ![p].opened = TRUE, ![p].err = @ + 1]
    /\ UNCHANGED << files, runs, i, space, pc, cmd, tmpdir, scratch, result,
                    result_images, before, memo, first_run, first_log,
                    accepted, initial >>

\* Lines 56-71: the command for the candidate.  No branch assigns `cmd`
\* for ".jpeg": the local keeps whatever it held.
ChooseCmd(p, old) ==
    IF Lower(p.suffix) = ".png"
    THEN [input |-> p, mode |-> "Zip", output |-> p]
    ELSE IF Lower(p.suffix) \in {".jpg", ".webp"}
         THEN [input |-> p, mode |-> "LZW", output |-> p]
         ELSE old

\* Lines 50-71: the image opens, the temporary directory is created and
\* the command is chosen.
Open(p) ==
    /\ pc = "loop"
    /\ p \in remaining
    /\ Lower(p.suffix) \in supported_extensions
    /\ files[p].img
    /\ remaining' = remaining \ {p}
    /\ file_path' = p
    /\ tmpdir' = p
    /\ scratch' = NoFile
    /\ cmd' = ChooseCmd(p, cmd)
    /\ log' = [log EXCEPT ![p].opened = TRUE]
    /\ pc' = "run"
    /\ UNCHANGED << files, runs, i, space, result, result_images, before, memo,
                    first_run, first_log,
                    accepted, initial >>

\* Line 73 with `cmd` never assigned: UnboundLocalError, caught at
\* line 102 after the temporary directory is removed.
RunUnbound ==
    /\ pc = "run"
    /\ cmd = Unbound
    /\ tmpdir' = NoPath
    /\ scratch' = NoFile
    /\ log' = [log EXCEPT ![file_path].err = @ + 1]
    /\ pc' = "loop"
    /\ UNCHANGED << files, runs, i, space, remaining, file_path, cmd, result,
                    result_images, before, memo, first_run, first_log,
                    accepted, initial >>

\* The outcomes of a run on input q: any, or, for a tool that is a
\* function of its input file's content, the one it gave for that content.
Outcomes(q, det) ==
    IF det /\ memo[q].content = files[q]
    THEN {memo[q].outcome}
    ELSE ToolOutcomes(files[q])

\* Lines 73-75: subprocess.run(cmd).  The tool reads cmd.input and writes
\* cmd.output; that lands at temp_compressed only when cmd.output is in the
\* live temporary directory.
RunTool(det) ==
    /\ pc = "run"
    /\ cmd # Unbound
    /\ \E o \in Outcomes(cmd.input, det) :
         /\ result' = [returncode |-> o.rc]
         /\ scratch' = IF cmd.output = tmpdir THEN o.out ELSE NoFile
         /\ memo' = IF det
                    THEN [memo EXCEPT ![cmd.input] =
                            [content |-> files[cmd.input], outcome |-> o]]
                    ELSE memo
         /\ log' = [log EXCEPT
                      ![cmd.input].invoked = @ + 1,
                      ![file_path].run = o,
                      ![file_path].own = (cmd.input = file_path)]
    /\ pc' = "check"
    /\ UNCHANGED << files, runs, i, space, remaining, file_path, cmd, tmpdir,
                    result_images, before, first_run, first_log,
                    accepted, initial >>

\* Mutant of ToolSucceeded: the exit status is not looked at.
ToolSucceededIgnoringStatus == scratch # NoFile

\* Line 76.
ToolSucceeded == result.returncode = 0 /\ scratch # NoFile

\* Mutant of Reject: `continue` leaves the loop body without the temporary
\* directory being removed.
RejectLeavingScratch ==
    /\ pc = "check"
    /\ ~ ToolSucceeded
    /\ log' = [log EXCEPT ![file_path].diag = @ + 1]
    /\ pc' = "loop"
    /\ UNCHANGED << files, runs, i, space, remaining, file_path, cmd, tmpdir,
                    scratch, result, result_images, before, memo, first_run,
                    first_log,
                    accepted, initial >>

\* Lines 97-101: the else branch of line 76.
Reject ==
    /\ pc = "check"
    /\ ~ ToolSucceeded
    /\ log' = [log EXCEPT ![file_path].diag = @ + 1]
    /\ tmpdir' = NoPath
    /\ scratch' = NoFile
    /\ pc' = "loop"
    /\ UNCHANGED << files, runs, i, space, remaining, file_path, cmd, result,
                    result_images, before, memo, first_run, first_log,
                    accepted, initial >>

\* Mutant of GateRejects: the original is overwritten before the sizes are
\* compared, and no record is appended.
GateRejectsAfterWriting ==
    /\ pc = "check"
    /\ ToolSucceeded
    /\ ~ SizeGate(scratch.size, files[file_path].size)
    /\ files' = [files EXCEPT ![file_path] = scratch]
    /\ log' = [log EXCEPT ![file_path].gate = "rejected"]
    /\ tmpdir' = NoPath
    /\ scratch' = NoFile
    /\ pc' = "loop"
    /\ UNCHANGED << runs, i, space, remaining, file_path, cmd, result,
                    result_images, before, memo, first_run, first_log,
                    accepted, initial >>

\* Lines 76-80 with the comparison of line 80 false: nothing is printed.
GateRejects ==
    /\ pc = "check"
    /\ ToolSucceeded
    /\ ~ SizeGate(scratch.size, files[file_path].size)
    /\ log' = [log EXCEPT ![file_path].gate = "rejected"]
    /\ tmpdir' = NoPath
    /\ scratch' = NoFile
    /\ pc' = "loop"
    /\ UNCHANGED << files, runs, i, space, remaining, file_path, cmd, result,
                    result_images, before, memo, first_run, first_log,
                    accepted, initial >>

\* Mutant of Replace: original_size is read after the overwrite.
ReplaceStatAfterWrite ==
    /\ pc = "check"
    /\ ToolSucceeded
    /\ SizeGate(scratch.size, files[file_path].size)
    /\ files' = [files EXCEPT ![file_path] = scratch]
    /\ result_images' = Append(result_images,
            [path |-> file_path,
             original_size |-> scratch.size,
             new_size |-> scratch.size])
    /\ log' = [log EXCEPT ![file_path].gate = "accepted",
                          ![file_path].write = "ok"]
    /\ tmpdir' = NoPath
    /\ scratch' = NoFile
    /\ pc' = "loop"
    /\ accepted' = [accepted EXCEPT ![file_path] = @ + 1]
    /\ UNCHANGED << runs, i, space, remaining, file_path, cmd, result, before,
                    memo, first_run, first_log, initial >>

\* Lines 76-96: the gate accepts, the original is overwritten with the
\* scratch bytes and the record is appended.
Replace ==
    /\ pc = "check"
    /\ ToolSucceeded
    /\ SizeGate(scratch.size, files[file_path].size)
    /\ files' = [files EXCEPT ![file_path] = scratch]
    /\ result_images' = Append(result_images,
            [path |-> file_path,
             original_size |-> files[file_path].size,
             new_size |-> scratch.size])
    /\ log' = [log EXCEPT ![file_path].gate = "accepted",
                          ![file_path].write = "ok"]
    /\ tmpdir' = NoPath
    /\ scratch' = NoFile
    /\ pc' = "loop"
    /\ accepted' = [accepted EXCEPT ![file_path] = @ + 1]
    /\ UNCHANGED << runs, i, space, remaining, file_path, cmd, result, before,
                    memo, first_run, first_log, initial >>

\* Line 83: open(file_path, 'wb') raises (e.g. a read-only file); the
\* file is untouched and the handler of line 102 logs.
OpenForWriteRaises ==
    /\ pc = "check"
    /\ ToolSucceeded
    /\ SizeGate(scratch.size, files[file_path].size)
    /\ log' = [log EXCEPT ![file_path].gate = "accepted",
                          ![file_path].write = "open_raised",
                          ![file_path].err = @ + 1]
    /\ tmpdir' = NoPath
    /\ scratch' = NoFile
    /\ pc' = "loop"
    /\ UNCHANGED << files, runs, i, space, remaining, file_path, cmd, result,
                    result_images, before, memo, first_run, first_log,
                    accepted, initial >>

\* Lines 83-84: open(file_path, 'wb') has truncated the file and
\* f.write raises; a prefix of the scratch bytes is left.
WriteRaises ==
    /\ pc = "check"
    /\ ToolSucceeded
    /\ SizeGate(scratch.size, files[file_path].size)
    /\ \E c \in PartialWrites(scratch) :
         files' = [files EXCEPT ![file_path] = c]
    /\ log' = [log EXCEPT ![file_path].gate = "accepted",
                          ![file_path].write = "write_raised",
                          ![file_path].err = @ + 1]
    /\ tmpdir' = NoPath
    /\ scratch' = NoFile
    /\ pc' = "loop"
    /\ UNCHANGED << runs, i, space, remaining, file_path, cmd, result,
                    result_images, before, memo, first_run, first_log,
                    accepted, initial >>

Next ==
    \/ StartPass
    \/ \E p \in AllPaths : SkipUnsupported(p)
    \/ \E p \in AllPaths : OpenRaises(p)
    \/ \E p \in AllPaths : Open(p)
    \/ RunUnbound
    \/ RunTool(FALSE)
    \/ Reject
    \/ GateRejects
    \/ Replace
    \/ OpenForWriteRaises
    \/ WriteRaises
    \/ Return
    \/ Summary

Spec == Init /\ [][Next]_vars

\* The same program with an external tool that is a function of the
\* content of its input file.
NextDet ==
    \/ StartPass
    \/ \E p \in AllPaths : SkipUnsupported(p)
    \/ \E p \in AllPaths : OpenRaises(p)
    \/ \E p \in AllPaths : Open(p)
    \/ RunUnbound
    \/ RunTool(TRUE)
    \/ Reject
    \/ GateRejects
    \/ Replace
    \/ OpenForWriteRaises
    \/ WriteRaises
    \/ Return
    \/ Summary

SpecDet == InitTwice /\ [][NextDet]_vars

\* main, with the tool free to differ from run to run.
SpecMain == InitMain /\ [][Next]_vars

\* main as a sequential program: a step that can be taken is taken (every
\* call, the subprocess included, returns).
SpecMainFair == SpecMain /\ WF_vars(Next)

\* A caller that calls compress_images again and again on the same root:
\* main's loop without its bound of ten.
Again ==
    /\ pc = "returned"
    /\ pc' = "main"
    /\ UNCHANGED << files, runs, i, space, remaining, file_path, cmd, tmpdir,
                    scratch, result, result_images, before, log, memo,
                    first_run, first_log, accepted, initial >>

InitRepeat == Start(1, MaxFilesRepeated)

NextRepeat ==
    \/ StartPass
    \/ \E p \in AllPaths : SkipUnsupported(p)
    \/ \E p \in AllPaths : OpenRaises(p)
    \/ \E p \in AllPaths : Open(p)
    \/ RunUnbound
    \/ RunTool(TRUE)
    \/ Reject
    \/ GateRejects
    \/ Replace
    \/ OpenForWriteRaises
    \/ WriteRaises
    \/ Return
    \/ Again

\* Any number of passes with a deterministic tool; every call returns and
\* is followed by the next.
SpecRepeat == InitRepeat /\ [][NextRepeat]_vars /\ WF_vars(NextRepeat)

\* ------------------------------------------------------------------------
\* Properties
\* ------------------------------------------------------------------------

Returned == pc = "returned"

Records(p) == { k \in 1 .. Len(result_images) : result_images[k].path = p }

InResults(p) == Records(p) # {}

\* Savings strictly greater than 1%.
SavesOverOnePercent(new, original) == 100 * new < 99 * original

\* The tool was run on p itself while p was the candidate.
RanOn(p) == log[p].own /\ log[p].run # NoRun

\* That run exited 0 and left a file at the scratch path.
Produced(p) == RanOn(p) /\ log[p].run.rc = 0 /\ log[p].run.out # NoFile

\* ... and the file passes the size gate against p's size before the pass.
Qualifies(p) ==
    Produced(p) /\ SavesOverOnePercent(log[p].run.out.size, before[p].size)

Candidate(p) == p.suffix \in {".png", ".PNG", ".jpg", ".jpeg", ".webp"}

\* C1 as stated: when a pass has returned, a file has a result record if and
\* only if the compressed output produced for it saves more than 1%.
C1_RecordIffGate ==
    Returned => \A p \in Dir : InResults(p) <=> Qualifies(p)

\* C1 amended: when a pass has returned, a file has a result record if and
\* only if the compressed output produced for it (exit status 0, output
\* present) saves more than 1% and the overwrite of the file with that
\* output completed.
C1_RecordIffGateAndOverwritten ==
    Returned =>
        \A p \in Dir :
            InResults(p) <=> (Qualifies(p) /\ files[p] = log[p].run.out)

\* C1 witness: a returned pass with one file recorded and another whose
\* qualifying output was lost to an exception in the overwrite.
C1_Witness ==
    /\ Returned
    /\ \E p, q \in Dir :
         /\ InResults(p)
         /\ Qualifies(q) /\ log[q].err > 0 /\ ~ InResults(q)

\* C2 as stated (taking I/O errors out of it): when a pass has returned,
\* every readable file with a supported extension that met no exception in
\* its overwrite has been compressed by the tool, and if the compressed form
\* saves more than 1% the file holds the compressed bytes and has exactly one
\* record, with original_size its size before the pass, new_size its size
\* after, and new_size < original_size.
C2_SupportedFileReplaced ==
    Returned =>
        \A p \in Dir :
            (Candidate(p) /\ before[p].img /\ log[p].write \in {"none", "ok"})
            => /\ RanOn(p)
               /\ Qualifies(p) =>
                    /\ files[p] = log[p].run.out
                    /\ Cardinality(Records(p)) = 1
                    /\ \A k \in Records(p) :
                         /\ result_images[k].original_size = before[p].size
                         /\ result_images[k].new_size = files[p].size
                         /\ result_images[k].new_size
                              < result_images[k].original_size

\* C3: when a pass has returned, a file whose compressed form does not save
\* more than 1% (equal or larger included) has the bytes it had before the
\* pass and no result record.
C3_NoGainNoChange ==
    Returned =>
        \A p \in Dir :
            ( /\ RanOn(p)
              /\ log[p].run.out # NoFile
              /\ ~ SavesOverOnePercent(log[p].run.out.size, before[p].size) )
            => files[p] = before[p] /\ ~ InResults(p)

\* C3 witness: a returned pass in which the tool exited 0 with an output
\* smaller than the original, but by no more than 1%.
C3_Witness ==
    /\ Returned
    /\ \E p \in Dir :
         /\ Produced(p)
         /\ log[p].run.out.size < before[p].size
         /\ ~ SavesOverOnePercent(log[p].run.out.size, before[p].size)

\* C4: at every moment, a file whose extension is outside the allow-list
\* (.bmp) has not been opened by the readability check, has not been the
\* tool's input, is not the input of the current command, has no result
\* record and holds the bytes it had before the pass.
C4_UnsupportedUntouched ==
    \A p \in Dir :
        p.suffix = ".bmp"
        => /\ ~ log[p].opened
           /\ log[p].invoked = 0
           /\ cmd.input # p
           /\ ~ InResults(p)
           /\ files[p] = before[p]

\* C4 witness: a returned pass over a .bmp file and a sibling that was
\* replaced.
C4_Witness ==
    /\ Returned
    /\ \E p, q \in Dir : p.suffix = ".bmp" /\ InResults(q)

\* C5 as stated: when a pass has returned, every file either holds scratch
\* content that passed the size gate or the bytes it had before the pass.
C5_ReplacedOrIdentical ==
    Returned =>
        \A p \in Dir :
            \/ files[p] = before[p]
            \/ Qualifies(p) /\ files[p] = log[p].run.out

\* C6 as stated: when a pass has returned, a supported file that failed to
\* open or met an exception has no record, and every other readable
\* supported file of the pass was opened and run through the tool.
C6_FailureIsolated ==
    Returned =>
        \A q \in Dir :
            (Candidate(q) /\ (~ before[q].img \/ log[q].err > 0))
            => /\ ~ InResults(q)
               /\ \A p \in Dir \ {q} :
                    (Candidate(p) /\ before[p].img)
                    => log[p].opened /\ RanOn(p)

\* C7 as stated: when a pass in which every tool invocation exited non-zero
\* has returned, the result list is empty, every file holds the bytes it had
\* before, and the diagnostic was printed exactly once for each readable
\* file with a supported extension.
C7_AllFailDiagnosedOnce ==
    (Returned /\ \A p \in Dir : log[p].run.rc # 0)
    => /\ result_images = << >>
       /\ files = before
       /\ \A p \in Dir :
            (Candidate(p) /\ before[p].img) => log[p].diag = 1

C9_EmptyOutputNotAccepted ==
    Returned =>
        \A p \in Dir :
            (Produced(p) /\ log[p].run.out.size = 0)
            => files[p] = before[p] /\ ~ InResults(p)

\* C10 as stated: when a pass has returned, the diagnostic was printed once
\* for every file whose own tool run failed (non-zero exit or no output) or
\* succeeded without saving more than 1%.
C10_EveryRejectionDiagnosed ==
    Returned =>
        \A p \in Dir :
            (RanOn(p) /\ ~ Qualifies(p)) => log[p].diag = 1

\* C11 as stated: whenever the tool is about to be run for a validated
\* candidate, the command is `gm convert <input> -strip -compress <Mode>
\* <output>` with the candidate's own path as input, the candidate's own
\* scratch path as output, and Mode Zip for .png and LZW for .jpg, .jpeg and
\* .webp (case-insensitive).
C11_CommandForCandidate ==
    pc = "run" =>
        /\ tmpdir = file_path
        /\ cmd = [input |-> file_path,
                  mode |-> IF file_path.suffix \in {".png", ".PNG"}
                           THEN "Zip" ELSE "LZW",
                  output |-> tmpdir]

\* C12: between candidates, after the pass has returned and in main, no
\* scratch location exists; while a candidate is processed the only scratch
\* location is that candidate's; and a scratch location is created only when
\* none exists.
C12_ScratchRemoved ==
    /\ [](/\ pc \in {"main", "loop", "returned"}
             => tmpdir = NoPath /\ scratch = NoFile
          /\ pc \in {"run", "check"} => tmpdir = file_path)
    /\ [][(tmpdir' # tmpdir /\ tmpdir' # NoPath) => tmpdir = NoPath]_vars

\* C12 witness: a returned pass in which one candidate was accepted and
\* another left its processing through an exception or a rejection.
C12_Witness ==
    /\ Returned
    /\ tmpdir = NoPath
    /\ \E p, q \in Dir :
         /\ log[p].write = "ok"
         /\ log[q].err > 0 \/ log[q].diag > 0

\* What C13 says of every state of main: passes are numbered 1 to 10; while
\* i <= 10 the next pass starts whatever the last one yielded; after the
\* tenth nothing more happens; a pass starts with every file of the directory
\* still to be yielded, and returns with every file yielded and every file
\* with a supported extension opened.
C13_Inv ==
    /\ i \in 1 .. 11
    /\ pc # "main" => i <= 10
    /\ (pc = "main" /\ i <= 10) => ENABLED StartPass
    /\ (pc = "main" /\ i > 10) => i = 11 /\ ~ ENABLED Next
    /\ (pc = "loop" /\ file_path = NoPath) => remaining = Dir
    /\ Returned =>
         /\ remaining = {}
         /\ \A p \in Dir : Candidate(p) => log[p].opened

\* C13: main runs passes 1 to 10 in this way and then stops.
C13_TenPassesThenStop == [] C13_Inv /\ <> (pc = "main" /\ i = 11)

\* C13 witness: the tenth pass has returned, having opened a file replaced in
\* an earlier pass, although the ninth pass yielded no result.
C13_Witness ==
    /\ Returned
    /\ i = 10
    /\ first_run = << >>
    /\ \E p \in Dir : files[p].tag = "gm" /\ before[p].tag = "gm" /\ log[p].opened

\* The bytes of the directory.
RECURSIVE TotalBytes(_, _)
TotalBytes(f, S) ==
    IF S = {} THEN 0
    ELSE LET p == CHOOSE q \in S : TRUE
         IN f[p].size + TotalBytes(f, S \ {p})

\* C14: a step changes the content of a file only while that file is the
\* candidate, after the tool has been run on it and has exited 0, with the
\* scratch output present and saving more than 1%; and when a pass has
\* returned, a file whose tool run failed or whose output the gate rejected
\* holds the bytes it had before.
C14_WriteOnlyAfterAccept ==
    /\ [][\A p \in Dir :
            files'[p] # files[p]
            => /\ pc = "check"
               /\ file_path = p
               /\ RanOn(p)
               /\ result.returncode = 0
               /\ scratch # NoFile
               /\ scratch = log[p].run.out
               /\ SavesOverOnePercent(scratch.size, files[p].size)]_vars
    /\ [](Returned =>
            \A p \in Dir : (RanOn(p) /\ ~ Qualifies(p)) => files[p] = before[p])

\* C14 witness: a returned pass in which one file was overwritten and the
\* tool failed for another.
C14_Witness ==
    /\ Returned
    /\ \E p, q \in Dir :
         /\ files[p] # before[p]
         /\ RanOn(q) /\ log[q].run.rc # 0 /\ files[q] = before[q]

\* C15 as stated: when a pass has returned, the files with a result record
\* are exactly the files whose content the pass changed.
C15_RecordedIffChanged ==
    Returned =>
        { p \in Dir : InResults(p) } = { p \in Dir : files[p] # before[p] }

\* C16 as stated: within one pass the tool is run at most once with any
\* given path as its input.
C16_AtMostOneRunPerPath ==
    \A p \in Dir : log[p].invoked <= 1

\* C17 as stated: once main has summarised a pass, the total it reports is
\* the sum of original_size - new_size over that pass's records (nothing
\* carried over from earlier passes) and equals the decrease of the
\* directory's total bytes during the pass.
C17_TotalIsBytesSaved ==
    (pc = "main" /\ i > 1) =>
        /\ space = Saved(result_images)
        /\ space = TotalBytes(before, Dir) - TotalBytes(files, Dir)

\* C18: no step makes a file larger; a step that appends a record makes the
\* candidate at least one byte smaller; so the replacements made to a file
\* never outnumber the bytes it has lost, and there are at most as many as
\* its initial size; and from some pass on every result list is empty.
C18_ShrinksUntilQuiet ==
    /\ [][/\ \A p \in Dir : files'[p].size <= files[p].size
          /\ Len(result_images') > Len(result_images)
             => /\ files'[file_path].size <= files[file_path].size - 1
                /\ accepted'[file_path] = accepted[file_path] + 1]_vars
    /\ [](\A p \in Dir :
            /\ accepted[p] <= initial[p].size - files[p].size
            /\ accepted[p] <= initial[p].size)
    /\ <>[](result_images = << >>)

\* C18 witness: a file replaced in three passes, and a later pass that
\* ran the tool on it and returned nothing.
C18_Witness ==
    /\ Returned
    /\ result_images = << >>
    /\ \E p \in Dir :
         /\ accepted[p] >= 3
         /\ RanOn(p)
         /\ files[p].size < initial[p].size

\* C19: a file of 0 bytes at the start of a pass keeps its bytes and gets
\* no record; the gate takes no output size against an original of 0
\* bytes; and every record has original_size >= 1, the divisor of the
\* percentage printed at lines 91-96.
C19_ZeroByteUntouched ==
    /\ \A p \in Dir :
         before[p].size = 0 => files[p] = before[p] /\ ~ InResults(p)
    /\ \A n \in OutSizes(0) \cup OutSizes(MaxSize) : ~ SizeGate(n, 0)
    /\ \A k \in 1 .. Len(result_images) : result_images[k].original_size >= 1

\* C19 witness: a returned pass that visited a file of 0 bytes and replaced
\* another file with an output of 0 bytes.
C19_Witness ==
    /\ Returned
    /\ \E p, q \in Dir :
         /\ before[p].size = 0 /\ log[p].opened
         /\ InResults(q) /\ files[q].size = 0

====
